---- MODULE Spec2Model ----
(***************************************************************************)
(* A model of the Markov-chain "brain" of seth-rah/robot: the tokenizer    *)
(* and speaker front end (v2/brain), and the SQL store's New, Speak and    *)
(* Forget (sqlbrain).                                                      *)
(*                                                                         *)
(* A Go string is a sequence of runes, each rune a one-element TLA+ string *)
(* (RuneE stands for a rune that takes two bytes in UTF-8).  The empty     *)
(* string is <<>>.  A []string is a sequence of such sequences.            *)
(***************************************************************************)
EXTENDS Integers, Sequences, FiniteSets, TLC

\* ------------------------------------------------------------------------
\* Bounds of the model
\* ------------------------------------------------------------------------
MaxOrder == 2
MaxLearn == 2
MaxForget == 1
MaxOut == 22
MaxWords == 3
MaxTrim == 5
MaxChannels == 2

\* ------------------------------------------------------------------------
\* Runes and strings
\* ------------------------------------------------------------------------
RuneE == "U+00E9"
Space == " "
Tab == "\t"
Empty == <<>>

\* unicode.IsSpace, on the runes of the model
IsSpace(c) == c \in {Space, Tab}

\* unicode.ToLower of one rune
LowerRune(c) ==
  CASE c = "A" -> "a"
    [] c = "B" -> "b"
    [] c = "C" -> "c"
    [] c = "T" -> "t"
    [] c = "N" -> "n"
    [] OTHER -> c

\* strings.ToLower
ToLower(w) == [i \in 1..Len(w) |-> LowerRune(w[i])]

\* len(w): the number of bytes of w
ByteLen(w) == Len(w) + Cardinality({i \in 1..Len(w) : w[i] = RuneE})

\* utf8.RuneCountInString
RuneCountInString(w) == Len(w)

\* strings.EqualFold
EqualFold(s, t) ==
  /\ Len(s) = Len(t)
  /\ \A i \in 1..Len(s) : LowerRune(s[i]) = LowerRune(t[i])

\* strings.IndexFunc(msg, unicode.IsSpace): 0-based index of the first space,
\* or -1
IndexFunc(msg) ==
  IF \E i \in 1..Len(msg) : IsSpace(msg[i])
  THEN (CHOOSE i \in 1..Len(msg) :
          /\ IsSpace(msg[i])
          /\ \A j \in 1..(i-1) : ~IsSpace(msg[j])) - 1
  ELSE -1

\* strings.TrimSpace
RECURSIVE TrimLeft(_)
TrimLeft(s) == IF s # <<>> /\ IsSpace(s[1]) THEN TrimLeft(Tail(s)) ELSE s

RECURSIVE TrimRight(_)
TrimRight(s) ==
  IF s # <<>> /\ IsSpace(s[Len(s)]) THEN TrimRight(SubSeq(s, 1, Len(s)-1)) ELSE s

TrimSpace(s) == TrimRight(TrimLeft(s))

\* msg[n:] with _, n := utf8.DecodeRuneInString(msg): n is 0 for the empty
\* string
SkipRune(msg) == IF msg = <<>> THEN msg ELSE Tail(msg)

\* ------------------------------------------------------------------------
\* v2/brain/words.go
\* ------------------------------------------------------------------------
isArticle(word) ==
  \/ EqualFold(word, <<"a">>)
  \/ EqualFold(word, <<"a", "n">>)
  \/ EqualFold(word, <<"t", "h", "e">>)

\* The condition with the length of the word taken in bytes
JoinsArticleBytes(word, prev) ==
  ByteLen(word) # 1 \/ ~EqualFold(prev, <<"a">>)

\* The condition of words.go:31 under which the word is added to the article
JoinsArticle(word, prev) ==
  RuneCountInString(word) # 1 \/ ~EqualFold(prev, <<"a">>)

\* The loop of Tokens: dst, art and msg are the loop's variables
RECURSIVE TokensLoop(_, _, _)
TokensLoop(dst, art, msg) ==
  IF msg = <<>> THEN dst
  ELSE LET k == IndexFunc(msg) IN
    IF k = 0 THEN TokensLoop(dst, art, SkipRune(msg))
    ELSE
      LET kk == IF k < 0 THEN Len(msg) ELSE k
          word == SubSeq(msg, 1, kk)
          rest == SubSeq(msg, kk + 1, Len(msg))
      IN IF art /\ JoinsArticle(word, dst[Len(dst)])
         THEN TokensLoop([dst EXCEPT ![Len(dst)] = @ \o <<Space>> \o word],
                         FALSE, rest)
         ELSE TokensLoop(Append(dst, word), isArticle(word), SkipRune(rest))

\* Tokens with the words put into a new list instead of after dst
TokensFresh(dst, msg) == TokensLoop(<<>>, FALSE, TrimSpace(msg))

\* Tokens: the words of msg appended to dst
Tokens(dst, msg) == TokensLoop(dst, FALSE, TrimSpace(msg))

ReduceEntropy(w) == ToLower(w)

\* ------------------------------------------------------------------------
\* v2/brain/speak.go: the pure parts
\* ------------------------------------------------------------------------
\* copy(dst, src): the first min(len) elements of dst become those of src
Copy(dst, src) ==
  [i \in 1..Len(dst) |-> IF i <= Len(src) THEN src[i] ELSE dst[i]]

\* The switch with the first n tokens kept
FitPromptFirst(tk, n) ==
  IF Len(tk) < n
    THEN [i \in 1..(n - Len(tk)) |-> Empty] \o tk
  ELSE SubSeq(tk, 1, n)

\* The switch of Speak: the prompt made to have n elements
FitPrompt(tk, n) ==
  IF Len(tk) < n
    THEN [i \in 1..(n - Len(tk)) |-> Empty] \o tk
  ELSE IF Len(tk) > n
    THEN SubSeq(Copy(tk, SubSeq(tk, Len(tk) - n + 1, Len(tk))), 1, n)
  ELSE tk

\* trim, first loop: k runs down from the last index; r is cut after the
\* first non-empty string found
RECURSIVE TrimEnd(_, _)
TrimEnd(rr, k) ==
  IF k < 1 THEN rr
  ELSE IF rr[k] # Empty THEN SubSeq(rr, 1, k)
  ELSE TrimEnd(rr, k - 1)

\* trim, second loop: k runs up from the first index; r[k:] is returned at
\* the first non-empty string found, nil when there is none
RECURSIVE TrimStart(_, _)
TrimStart(rr, k) ==
  IF k > Len(rr) THEN <<>>
  ELSE IF rr[k] # Empty THEN SubSeq(rr, k, Len(rr))
  ELSE TrimStart(rr, k + 1)

\* trim without its first loop
trimStartOnly(rr) == TrimStart(rr, 1)

trim(rr) == TrimStart(TrimEnd(rr, Len(rr)), 1)

\* strings.Join(a, " ")
RECURSIVE Join(_)
Join(a) ==
  IF a = <<>> THEN <<>>
  ELSE IF Len(a) = 1 THEN a[1]
  ELSE a[1] \o <<Space>> \o Join(Tail(a))

\* ------------------------------------------------------------------------
\* The state
\* ------------------------------------------------------------------------
VARIABLES
  order,     \* br.order, fixed when the store is created (Init: order)
  db,        \* the committed tuples: records [tag, prefix, suffix]
  learned,   \* the number of messages learned so far
  forgot,    \* the number of Forget calls so far
  aborted,   \* the program has panicked
  pc,        \* "idle", or where the call under way stands
  op,        \* the last operation called
  tag,       \* the tag of the call
  text,      \* the prompt text given to brain.Speak
  toks,      \* Tokens(nil, prompt)
  called,    \* the Speaker methods brain.Speak has called
  sprompt,   \* the prompt passed to Speaker.Speak
  terms,     \* Brain.Speak: the query parameters p0..p(order-1)
  nn,        \* Brain.Speak: nn
  out,       \* Brain.Speak: prompt, as it grows (its first MaxOut elements)
  q,         \* the last query made, with the length built when it was made
  ret,       \* what Speaker.Speak returned: [toks, err]
  result,    \* what the call returned: [msg, err]
  ftuples,   \* Forget: tuples
  fi,        \* Forget: the index of the tuple of the outer loop
  fstep,     \* Forget: the index of the step of the inner loop
  fterms,    \* Forget: terms, the statements' parameters
  txdb,      \* Forget: the tuples as the open transaction sees them
  trace,     \* Forget: the transaction's operations, in order
  all,       \* commands: the command table
  priv,      \* commands.Do: priv
  cmd,       \* commands.Do: cmd, as its words
  cfg,       \* Load, Init: the configuration that r holds
  robo,      \* Load: robo
  resp       \* Validate: the response of the API

vars == <<order, db, learned, forgot, aborted, pc, op, tag, text, toks, called,
          sprompt, terms, nn, out, q, ret, result, ftuples, fi, fstep, fterms,
          txdb, trace, all, priv, cmd, cfg, robo, resp>>

\* The state outside the brain
outerVars == <<all, priv, cmd, cfg, robo, resp>>

storeVars == <<order, db, learned, forgot, aborted>>
speakVars == <<text, toks, called, sprompt, terms, nn, out, q, ret>>
forgetVars == <<ftuples, fi, fstep, fterms, txdb, trace>>

\* The character bound of the loop of Brain.Speak
MaxChars == 500

\* Error values: nil is <<>>; fmt.Errorf("...: %w", err) puts its message in
\* front of the chain it wraps
Nil == <<>>
Wrap(msg, err) == <<msg>> \o err
ErrNoRows == <<"sql: no rows in result set">>
ErrStore == <<"store failure">>
NoQuery == [kind |-> "none"]

\* ------------------------------------------------------------------------
\* Words, texts and tags of the model
\* ------------------------------------------------------------------------
Tags == {"t1", "t2"}

LongWord == [i \in 1..24 |-> "x"]
HugeWord == [i \in 1..499 |-> "y"]
wA == <<"a">>
wB == <<"b">>
wCat == <<"C", "a", "t">>
wThe == <<"t", "h", "e">>

\* the words of ws with one space between them
RECURSIVE Sentence(_)
Sentence(ws) ==
  IF ws = <<>> THEN <<>>
  ELSE IF Len(ws) = 1 THEN ws[1]
  ELSE ws[1] \o <<Space>> \o Sentence(Tail(ws))

\* The messages learned, as the token lists given to the learner
LearnMessages == {
  <<wB, wCat, wB>>,
  <<LongWord, LongWord>>,
  <<wB, wThe \o <<Space>> \o wCat>> }

\* The prompts given to brain.Speak
PromptTexts == {
  <<>>,
  wB,
  wCat,
  LongWord,
  HugeWord,
  Sentence(<<wB, wThe, wCat, wA, wB>>) }

\* ------------------------------------------------------------------------
\* The tuple store as the SQL statements see it
\* ------------------------------------------------------------------------
\* The tuples of one learned message: every window of br.order normalized
\* tokens, padded with the start sentinel, with the token that follows it;
\* the last suffix is the end sentinel
LearnTuples(tg, n, tk) ==
  { [tag |-> tg,
     prefix |-> [j \in 1..n |->
                   IF i - n + j - 1 < 1 THEN Empty
                   ELSE ReduceEntropy(tk[i - n + j - 1])],
     suffix |-> IF i <= Len(tk) THEN tk[i] ELSE Empty] : i \in 1..(Len(tk) + 1) }

\* tuple.select.sql: the suffixes recorded for the tag and the exact prefix
\* of the parameters; the end sentinel when there is none
SelectTuple(d, p) ==
  LET found == {t.suffix : t \in {u \in d : u.tag = p.tag /\ u.prefix = p.p}}
  IN IF found = {} THEN {Empty} ELSE found

\* tuple.new.sql: the first tokens of the messages learned with the tag
NewTuple(d, p) ==
  {t.suffix : t \in {u \in d : /\ u.tag = p.tag
                               /\ \A j \in 1..Len(u.prefix) : u.prefix[j] = Empty}}

\* sq.NullString
NullString(w) == [String |-> w, Valid |-> w # Empty]
NullValue(ns) == IF ns.Valid THEN ns.String ELSE Empty

\* tuple.delete.sql, statement i of 0..4, executed with the parameters args
\* on the tuples d of the transaction.  Statement 1 takes tag, p0.. and
\* suffix and removes the tuples they match; NULL matches the sentinel.
DeleteTuple(i, d, args) ==
  IF i = 1
  THEN {t \in d : ~(/\ t.tag = args.tag
                    /\ t.prefix = [j \in 1..Len(args.p) |-> NullValue(args.p[j])]
                    /\ t.suffix = NullValue(args.suffix))}
  ELSE d

\* ------------------------------------------------------------------------
\* Values of the variables between calls
\* ------------------------------------------------------------------------
NoResult == [kind |-> "none"]
Returned(m, e) == [kind |-> "returned", msg |-> m, err |-> e]
NoRet == [toks |-> Nil, err |-> Nil]

ResetSpeak ==
  /\ text' = <<>>
  /\ toks' = <<>>
  /\ called' = {}
  /\ sprompt' = <<>>
  /\ terms' = <<>>
  /\ nn' = 0
  /\ out' = <<>>
  /\ q' = NoQuery
  /\ ret' = NoRet

ResetForget ==
  /\ ftuples' = <<>>
  /\ fi' = 0
  /\ fstep' = 0
  /\ fterms' = <<>>
  /\ txdb' = {}
  /\ trace' = <<>>

\* ------------------------------------------------------------------------
\* commands/commands.go: the command table
\* ------------------------------------------------------------------------
\* A command invocation is written as its words; a regular expression is
\* the set of the invocations it matches
EnableNames == {"quit", "uwu", "enable"}
EnableInvocations == {<<o, n>> : o \in {"enable", "disable"}, n \in EnableNames}

Invocations ==
  EnableInvocations \cup
  { <<>>, <<"resync">>, <<"EXEC", "x">>, <<"raw", "PING">>, <<"join", "#a">>,
    <<"give", "u", "regular">>, <<"quit">>, <<"QUIT">>, <<"forget", "x">>,
    <<"help", "quit">>, <<"invocation", "quit">>, <<"commands">>, <<"stfu">>,
    <<"you", "may", "speak">>, <<"go", "away">>, <<"ur", "2", "active">>,
    <<"rate", "5">>, <<"say", "hi">>, <<"uwu">>, <<"hello">> }

\* The privilege levels, and a string that is none of them
Privs == {"owner", "admin", "bot", "", "ignore", "regular"}

\* One element of the command table: disable is zero
Command(nm, ad, rg, r) ==
  [disable |-> 0, admin |-> ad, regular |-> rg, name |-> nm, re |-> r]

\* The table that init builds
AllCommands == <<
  Command("enable", FALSE, FALSE, EnableInvocations),
  Command("resync", FALSE, FALSE, {<<"resync">>}),
  Command("exec", FALSE, FALSE, {<<"EXEC", "x">>}),
  Command("raw", FALSE, FALSE, {<<"raw", "PING">>}),
  Command("join", FALSE, FALSE, {<<"join", "#a">>}),
  Command("privs", FALSE, FALSE, {<<"give", "u", "regular">>}),
  Command("quit", FALSE, FALSE, {<<"quit">>}),
  Command("forget", TRUE, FALSE, {<<"forget", "x">>}),
  Command("help", TRUE, FALSE, {<<"help", "quit">>}),
  Command("invocation", TRUE, FALSE, {<<"invocation", "quit">>}),
  Command("list", TRUE, FALSE, {<<"commands">>}),
  Command("silence", TRUE, FALSE, {<<"stfu">>}),
  Command("unsilence", TRUE, FALSE, {<<"you", "may", "speak">>}),
  Command("leave", TRUE, FALSE, {<<"go", "away">>}),
  Command("too-active", TRUE, FALSE, {<<"ur", "2", "active">>}),
  Command("set-prob", TRUE, FALSE, {<<"rate", "5">>}),
  Command("talk", TRUE, TRUE, {<<"say", "hi">>}),
  Command("uwu", TRUE, TRUE, {<<"uwu">>}),
  Command("talk-catchall", TRUE, TRUE, Invocations) >>

\* re.FindStringSubmatch(invoc): nil, or the match
NoMatch == <<>>
FindStringSubmatch(r, invoc) == IF invoc \in r THEN <<invoc>> ELSE NoMatch

\* The switch of ok with its cases for "owner" and "" only
allowedOwnerRegular(c, pr) ==
  CASE pr = "owner" -> TRUE
    [] pr = "" -> c.regular
    [] OTHER -> TRUE

\* The switch of ok: FALSE where it returns nil
allowed(c, pr) ==
  CASE pr = "owner" -> TRUE
    [] pr \in {"admin", "bot"} -> c.admin
    [] pr = "" -> c.regular
    [] pr = "ignore" -> FALSE
    [] OTHER -> TRUE

\* ok with the disable flag not looked at
okFlagless(c, pr, invoc) ==
  IF ~allowed(c, pr) THEN NoMatch
  ELSE FindStringSubmatch(c.re, invoc)

\* command.ok
ok(c, pr, invoc) ==
  IF c.disable # 0 THEN NoMatch
  ELSE IF ~allowed(c, pr) THEN NoMatch
  ELSE FindStringSubmatch(c.re, invoc)

\* findcmd: the index of the command of that name, 0 for nil
findcmd(tbl, nm) ==
  IF \E i \in 1..Len(tbl) : tbl[i].name = nm
  THEN CHOOSE i \in 1..Len(tbl) :
         /\ tbl[i].name = nm
         /\ \A j \in 1..(i-1) : tbl[j].name # nm
  ELSE 0

\* The function of the command "enable": the flag of the command named is
\* set for "disable" and cleared for "enable"
enable(tbl, m) ==
  LET i == findcmd(tbl, m[1][2]) IN
  IF i = 0 THEN tbl
  ELSE [tbl EXCEPT ![i].disable = IF m[1][1] = "disable" THEN 1 ELSE 0]

\* c.f: what the function of the command at index i does to the table
Invoke(tbl, i, m) == IF tbl[i].name = "enable" THEN enable(tbl, m) ELSE tbl

\* The loop of Do from index i on: the index of the command performed, 0
\* when the loop ends without one
RECURSIVE DoLoop(_, _, _, _)
DoLoop(tbl, i, pr, invoc) ==
  IF i > Len(tbl) THEN 0
  ELSE IF ok(tbl[i], pr, invoc) # NoMatch THEN i
  ELSE DoLoop(tbl, i + 1, pr, invoc)

\* ------------------------------------------------------------------------
\* The state outside the brain, before anything is called
\* ------------------------------------------------------------------------
\* var robo Robot: the map channels is nil
NoRobot == [channels |-> [nil |-> TRUE, entries |-> {}]]
NoConfig == [tmi |-> FALSE, twitch |-> {}]
NoResponse == [kind |-> "none"]

OuterInit ==
  /\ all = AllCommands
  /\ priv = ""
  /\ cmd = <<>>
  /\ cfg = NoConfig
  /\ robo = NoRobot
  /\ resp = NoResponse

Init ==
  /\ order \in 1..MaxOrder
  /\ db = {}
  /\ learned = 0
  /\ forgot = 0
  /\ aborted = FALSE
  /\ pc = "idle"
  /\ op = "none"
  /\ tag = "t1"
  /\ text = <<>>
  /\ toks = <<>>
  /\ called = {}
  /\ sprompt = <<>>
  /\ terms = <<>>
  /\ nn = 0
  /\ out = <<>>
  /\ q = NoQuery
  /\ ret = NoRet
  /\ result = NoResult
  /\ ftuples = <<>>
  /\ fi = 0
  /\ fstep = 0
  /\ fterms = <<>>
  /\ txdb = {}
  /\ trace = <<>>
  /\ OuterInit

CanCall == pc = "idle" /\ ~aborted

\* ------------------------------------------------------------------------
\* Learning: the tuples of one message are committed at once
\* ------------------------------------------------------------------------
Learn(tg, tk) ==
  /\ CanCall
  /\ learned < MaxLearn
  /\ db' = db \cup LearnTuples(tg, order, tk)
  /\ learned' = learned + 1
  /\ UNCHANGED <<order, forgot, aborted, pc, op, tag, result, speakVars,
                 forgetVars>>
  /\ UNCHANGED outerVars

\* ------------------------------------------------------------------------
\* sqlbrain: Brain.New and Brain.Speak
\* ------------------------------------------------------------------------
\* The parameters of the query of New
NewParams(tg) == [tag |-> tg]

\* r := make([]string, br.order); r[br.order-1] = s
NewPrompt(n, s) == [i \in 1..n |-> IF i = n THEN s ELSE Empty]

\* The first loop of Brain.Speak: the terms and nn of a prompt
SpeakTerms(prompt) == [i \in 1..Len(prompt) |-> ReduceEntropy(prompt[i])]

RECURSIVE CumLen(_)
CumLen(ws) == IF ws = <<>> THEN 0 ELSE ByteLen(Head(ws)) + 1 + CumLen(Tail(ws))

SpeakNN(prompt) == CumLen(prompt)

\* The query made without the tag of the request
SpeakParamsAnyTag(tg, tms) == [tag |-> "t2", p |-> tms]

\* The named arguments of the query of Brain.Speak: p0.. alias terms
SpeakParams(tg, tms) == [tag |-> tg, p |-> tms]

\* What the loop does to nn when w is appended
NextNN(n, w) == n

\* What the loop does to terms when w is appended
SlideTerms(tms, w) == [Copy(tms, Tail(tms)) EXCEPT ![Len(tms)] = w]

\* prompt = append(prompt, w); the model keeps the first MaxOut elements
AppendToken(o, w) == IF Len(o) < MaxOut THEN Append(o, w) ELSE o

\* The scan fails and the tokens found so far are returned
ScanFailedPartial(o, cause) ==
  [toks |-> o, err |-> Wrap("couldn't scan chain with terms", cause)]

\* What Brain.Speak returns when the scan fails
ScanFailed(o, cause) ==
  [toks |-> Nil, err |-> Wrap("couldn't scan chain with terms", cause)]

\* ------------------------------------------------------------------------
\* brain.Speak
\* ------------------------------------------------------------------------
\* toks := Tokens(nil, prompt), for the prompts of the model
PromptTokens == [tx \in PromptTexts |-> Tokens(<<>>, tx)]

StartSpeak(tg, tx) ==
  /\ CanCall
  /\ op' = "Speak"
  /\ tag' = tg
  /\ text' = tx
  /\ toks' = PromptTokens[tx]
  /\ UNCHANGED forgetVars
  /\ UNCHANGED storeVars

\* No prompt, and New fails
SpeakNewFails(tg, tx) ==
  /\ StartSpeak(tg, tx)
  /\ PromptTokens[tx] = <<>>
  /\ \E cause \in {ErrStore} \cup
          (IF NewTuple(db, NewParams(tg)) = {} THEN {ErrNoRows} ELSE {}) :
       result' = Returned(Empty,
                   Wrap("couldn't get a new prompt",
                        Wrap("couldn't get new chain", cause)))
  /\ called' = {"New"}
  /\ q' = [kind |-> "new", tag |-> NewParams(tg).tag, p |-> <<>>, sofar |-> 0]
  /\ sprompt' = <<>>
  /\ terms' = <<>>
  /\ nn' = 0
  /\ out' = <<>>
  /\ ret' = NoRet
  /\ pc' = "done"
  /\ UNCHANGED outerVars

\* No prompt, and New gives one
SpeakNew(tg, tx) ==
  /\ StartSpeak(tg, tx)
  /\ PromptTokens[tx] = <<>>
  /\ \E s \in NewTuple(db, NewParams(tg)) :
       /\ sprompt' = NewPrompt(order, s)
       /\ terms' = SpeakTerms(NewPrompt(order, s))
       /\ nn' = SpeakNN(NewPrompt(order, s))
       /\ out' = NewPrompt(order, s)
  /\ called' = {"New", "Speak"}
  /\ q' = [kind |-> "new", tag |-> NewParams(tg).tag, p |-> <<>>, sofar |-> 0]
  /\ ret' = NoRet
  /\ result' = NoResult
  /\ pc' = "walk"
  /\ UNCHANGED outerVars

\* A prompt: it is made to have Order() elements
SpeakPrompt(tg, tx) ==
  /\ StartSpeak(tg, tx)
  /\ PromptTokens[tx] # <<>>
  /\ LET prompt == FitPrompt(PromptTokens[tx], order)
     IN /\ sprompt' = prompt
        /\ terms' = SpeakTerms(prompt)
        /\ nn' = SpeakNN(prompt)
        /\ out' = prompt
  /\ called' = {"Speak"}
  /\ q' = NoQuery
  /\ ret' = NoRet
  /\ result' = NoResult
  /\ pc' = "walk"
  /\ UNCHANGED outerVars

Walking == pc = "walk" /\ nn < MaxChars

\* The query of this turn of the loop: its parameters, the length of the
\* sequence built so far, and whether an odd number of queries came before
ThisQuery == [kind |-> "select", tag |-> SpeakParams(tag, terms).tag,
              p |-> SpeakParams(tag, terms).p, sofar |-> CumLen(out),
              odd |-> IF q.kind = "select" THEN ~q.odd ELSE FALSE]

\* One turn of the loop of Brain.Speak: the query fails
SpeakScanFails ==
  /\ Walking
  /\ q' = ThisQuery
  /\ ret' = ScanFailed(out, ErrStore)
  /\ pc' = "ret"
  /\ UNCHANGED <<storeVars, forgetVars, op, tag, text, toks, called, sprompt,
                 terms, nn, out, result>>
  /\ UNCHANGED outerVars

\* One turn of the loop: the query gives the end sentinel
SpeakEnd ==
  /\ Walking
  /\ Empty \in SelectTuple(db, SpeakParams(tag, terms))
  /\ q' = ThisQuery
  /\ ret' = [toks |-> out, err |-> Nil]
  /\ pc' = "ret"
  /\ UNCHANGED <<storeVars, forgetVars, op, tag, text, toks, called, sprompt,
                 terms, nn, out, result>>
  /\ UNCHANGED outerVars

\* One turn of the loop: the query gives a token
SpeakAppend ==
  /\ Walking
  /\ \E w \in SelectTuple(db, SpeakParams(tag, terms)) \ {Empty} :
       /\ out' = AppendToken(out, w)
       /\ terms' = SlideTerms(terms, w)
       /\ nn' = NextNN(nn, w)
  /\ q' = ThisQuery
  /\ UNCHANGED <<storeVars, forgetVars, op, tag, text, toks, called, sprompt,
                 ret, result, pc>>
  /\ UNCHANGED outerVars

\* The loop is left because nn has reached the bound
SpeakBound ==
  /\ pc = "walk"
  /\ ~(nn < MaxChars)
  /\ ret' = [toks |-> out, err |-> Nil]
  /\ pc' = "ret"
  /\ UNCHANGED <<storeVars, forgetVars, op, tag, text, toks, called, sprompt,
                 terms, nn, out, q, result>>
  /\ UNCHANGED outerVars

\* brain.Speak, after Speaker.Speak has returned
SpeakResult(rt) ==
  IF rt.err # Nil
  THEN Returned(Empty, Wrap("couldn't speak", rt.err))
  ELSE Returned(Join(trim(rt.toks)), Nil)

SpeakReturn ==
  /\ pc = "ret"
  /\ result' = SpeakResult(ret)
  /\ pc' = "done"
  /\ UNCHANGED <<storeVars, forgetVars, speakVars, op, tag>>
  /\ UNCHANGED outerVars

\* ------------------------------------------------------------------------
\* sqlbrain: Brain.Forget
\* ------------------------------------------------------------------------
NumSteps == 5

\* terms := make([]sq.NullString, 1+br.order)
ZeroTerms(n) == [i \in 1..(n + 1) |-> [String |-> Empty, Valid |-> FALSE]]

\* The assignments to terms for one tuple: the elements of its Prefix, then
\* its Suffix
BindTerms(tms, tup, n) ==
  [i \in 1..Len(tms) |->
     IF i = n + 1 THEN NullString(tup.Suffix)
     ELSE IF i <= Len(tup.Prefix) THEN NullString(tup.Prefix[i])
     ELSE tms[i]]

\* The arguments of step i: none, p..., or p[1:]...
ExecArgs(i, tg, tms, n) ==
  IF i = 1 THEN [tag |-> tg, p |-> SubSeq(tms, 1, n), suffix |-> tms[n + 1]]
  ELSE IF i = 2 THEN [p |-> SubSeq(tms, 1, n), suffix |-> tms[n + 1]]
  ELSE [none |-> TRUE]

\* A rollback that keeps what the transaction has done
RollbackKeeps(d, tx) == tx

\* defer tx.Rollback(): the committed tuples d stay, whatever the
\* transaction has done to tx
Rollback(d, tx) == d

\* tx.Commit() that succeeds
Commit(d, tx) == tx

\* The tuples Forget is called with in the model: the tuples stored for the
\* tag that end a message, and those with the first element of their prefix
\* left out
StoredTuples(tg) ==
  {[Prefix |-> t.prefix, Suffix |-> t.suffix] :
     t \in {u \in db : u.tag = tg /\ u.suffix = Empty}}

ShortTuples(tg) ==
  {[Prefix |-> Tail(t.prefix), Suffix |-> t.suffix] :
     t \in {u \in db : u.tag = tg /\ u.suffix = Empty}}

ForgetTuples(tg) == StoredTuples(tg) \cup ShortTuples(tg)

ForgetLists(tg) ==
  {<<>>} \cup {<<a>> : a \in ForgetTuples(tg)}
         \cup {<<a, b>> : a \in StoredTuples(tg), b \in ShortTuples(tg)}

StartForget(tg, tups) ==
  /\ CanCall
  /\ forgot < MaxForget
  /\ forgot' = forgot + 1
  /\ op' = "Forget"
  /\ tag' = tg
  /\ ftuples' = tups
  /\ UNCHANGED speakVars
  /\ UNCHANGED <<order, learned, aborted>>

\* br.db.Begin fails
ForgetBeginFails(tg, tups) ==
  /\ StartForget(tg, tups)
  /\ result' = Returned(Empty, Wrap("couldn't open transaction", ErrStore))
  /\ trace' = <<[op |-> "Begin", ok |-> FALSE]>>
  /\ fterms' = ZeroTerms(order)
  /\ fi' = 0
  /\ fstep' = 0
  /\ txdb' = {}
  /\ pc' = "done"
  /\ UNCHANGED db
  /\ UNCHANGED outerVars

\* br.db.Begin succeeds
ForgetBegin(tg, tups) ==
  /\ StartForget(tg, tups)
  /\ result' = NoResult
  /\ trace' = <<[op |-> "Begin", ok |-> TRUE]>>
  /\ fterms' = ZeroTerms(order)
  /\ fi' = 1
  /\ fstep' = 0
  /\ txdb' = db
  /\ pc' = "forget"
  /\ UNCHANGED db
  /\ UNCHANGED outerVars

InTuple == pc = "forget" /\ fi <= Len(ftuples)

\* terms as the step about to run sees them
BoundTerms ==
  IF fstep = 0 THEN BindTerms(fterms, ftuples[fi], order) ELSE fterms

ThisExec(okay) ==
  [op |-> "Exec", tuple |-> fi, step |-> fstep,
   args |-> ExecArgs(fstep, tag, BoundTerms, order), ok |-> okay]

\* A step fails: the call returns the error, and the deferred Rollback runs
ForgetStepFails ==
  /\ InTuple
  /\ fterms' = BoundTerms
  /\ trace' = trace \o <<ThisExec(FALSE), [op |-> "Rollback"]>>
  /\ db' = Rollback(db, txdb)
  /\ result' = Returned(Empty, Wrap("couldn't remove tuples", ErrStore))
  /\ pc' = "done"
  /\ UNCHANGED <<order, learned, forgot, aborted, speakVars, op, tag, ftuples,
                 fi, fstep, txdb>>
  /\ UNCHANGED outerVars

\* A step succeeds
ForgetStep ==
  /\ InTuple
  /\ fterms' = BoundTerms
  /\ trace' = Append(trace, ThisExec(TRUE))
  /\ txdb' = DeleteTuple(fstep, txdb, ExecArgs(fstep, tag, BoundTerms, order))
  /\ fstep' = (fstep + 1) % NumSteps
  /\ fi' = IF fstep = NumSteps - 1 THEN fi + 1 ELSE fi
  /\ UNCHANGED <<storeVars, speakVars, op, tag, result, ftuples, pc>>
  /\ UNCHANGED outerVars

\* The commit attempted wherever the loop stands
CommittingEarly == pc = "forget"

\* The loop over the tuples has ended
Committing == pc = "forget" /\ fi > Len(ftuples)

\* tx.Commit fails; the deferred Rollback runs
ForgetCommitFails ==
  /\ Committing
  /\ trace' = trace \o <<[op |-> "Commit", ok |-> FALSE], [op |-> "Rollback"]>>
  /\ db' = Rollback(db, txdb)
  /\ result' = Returned(Empty, Wrap("couldn't commit delete ops", ErrStore))
  /\ pc' = "done"
  /\ UNCHANGED <<order, learned, forgot, aborted, speakVars, op, tag, ftuples,
                 fi, fstep, fterms, txdb>>
  /\ UNCHANGED outerVars

\* tx.Commit succeeds; the deferred Rollback finds the transaction done
ForgetCommit ==
  /\ Committing
  /\ trace' = Append(trace, [op |-> "Commit", ok |-> TRUE])
  /\ db' = Commit(db, txdb)
  /\ result' = Returned(Empty, Nil)
  /\ pc' = "done"
  /\ UNCHANGED <<order, learned, forgot, aborted, speakVars, op, tag, ftuples,
                 fi, fstep, fterms, txdb>>
  /\ UNCHANGED outerVars

\* ------------------------------------------------------------------------
\* sqlbrain: the forget modes that are not implemented
\* ------------------------------------------------------------------------
Unimplemented == {"ForgetMessage", "ForgetDuring", "ForgetUserSince"}

\* panic("unimplemented"): nothing is returned
Panic(name) ==
  /\ CanCall
  /\ op' = name
  /\ aborted' = TRUE
  /\ UNCHANGED <<order, db, learned, forgot, pc, tag, result, speakVars,
                 forgetVars>>
  /\ UNCHANGED outerVars

ForgetMessage == Panic("ForgetMessage")
ForgetDuring == Panic("ForgetDuring")
ForgetUserSince == Panic("ForgetUserSince")

\* ------------------------------------------------------------------------
\* The caller has the result of the call; the call's variables are gone
\* ------------------------------------------------------------------------
CallReturns ==
  /\ pc = "done"
  /\ pc' = "idle"
  /\ op' = "none"
  /\ tag' = "t1"
  /\ result' = NoResult
  /\ ResetSpeak
  /\ ResetForget
  /\ UNCHANGED storeVars
  /\ UNCHANGED outerVars

\* ------------------------------------------------------------------------
\* The specification
\* ------------------------------------------------------------------------
Next ==
  \/ \E tg \in Tags, tk \in LearnMessages : Learn(tg, tk)
  \/ \E tg \in Tags, tx \in PromptTexts : SpeakNewFails(tg, tx)
  \/ \E tg \in Tags, tx \in PromptTexts : SpeakNew(tg, tx)
  \/ \E tg \in Tags, tx \in PromptTexts : SpeakPrompt(tg, tx)
  \/ SpeakScanFails
  \/ SpeakEnd
  \/ SpeakAppend
  \/ SpeakBound
  \/ SpeakReturn
  \/ \E tg \in Tags : \E tups \in ForgetLists(tg) : ForgetBeginFails(tg, tups)
  \/ \E tg \in Tags : \E tups \in ForgetLists(tg) : ForgetBegin(tg, tups)
  \/ ForgetStepFails
  \/ ForgetStep
  \/ ForgetCommitFails
  \/ ForgetCommit
  \/ ForgetMessage
  \/ ForgetDuring
  \/ ForgetUserSince
  \/ CallReturns

Spec == Init /\ [][Next]_vars

\* The loop of Brain.Speak goes on as long as it can: the queries return
WalkStep == SpeakScanFails \/ SpeakEnd \/ SpeakAppend \/ SpeakBound

\* The end sentinel is drawn at random among the suffixes recorded for the
\* prefix: where it can be drawn again and again, it is drawn in the end
FairSpec ==
  Spec /\ WF_vars(WalkStep) /\ SF_vars(SpeakEnd) /\ WF_vars(SpeakReturn)

\* ------------------------------------------------------------------------
\* Termination and the character bound of Brain.Speak
\* ------------------------------------------------------------------------
\* C1: every call of Brain.Speak terminates: whenever the lookup loop is
\* entered, it is left after finitely many lookups.
C1_SpeakTerminates == (pc = "walk") ~> (pc # "walk")

\* C2: at every lookup of Brain.Speak, the cumulative length of the sequence
\* built so far (each token's length plus one, the tokens appended during
\* generation included) is below 500.
C2_LookupBelowBound == (q.kind = "select") => (q.sofar < MaxChars)

\* ------------------------------------------------------------------------
\* Forget
\* ------------------------------------------------------------------------
ForgetFailed ==
  /\ op = "Forget"
  /\ pc = "done"
  /\ \E i \in 1..Len(trace) : trace[i].op \in {"Begin", "Exec", "Commit"}
                              /\ ~trace[i].ok

\* C3: Forget is atomic: a call in which Begin, a delete statement or Commit
\* fails returns an error, and no step of a call other than its successful
\* Commit changes the stored tuples, so the stored state after a failed call
\* is what it was before the call.
C3_ForgetAtomic ==
  /\ [](ForgetFailed => (result.kind = "returned" /\ result.err # Nil))
  /\ [][(op' = "Forget" /\ ~(pc' = "done" /\ result'.kind = "returned"
                             /\ result'.err = Nil))
        => db' = db]_vars

\* A call of Forget has failed after a delete statement of the call removed
\* a tuple in the transaction
C3_Witness ==
  /\ ForgetFailed
  /\ \E i \in 1..Len(trace) : trace[i].op = "Exec" /\ trace[i].ok
  /\ txdb # db
  /\ txdb \subseteq db
  /\ result.err # Nil

\* C4: a call of a forget mode that is not implemented gives the caller an
\* Unsupported error as its result and does not abort the program.
C4_UnsupportedReturned ==
  (op \in Unimplemented) =>
    (~aborted /\ result.kind = "returned" /\ result.err # Nil)

\* ------------------------------------------------------------------------
\* Tag isolation and the match window
\* ------------------------------------------------------------------------
\* The tokens recorded under a tag
TagTokens(tg) == {t.suffix : t \in {u \in db : u.tag = tg}}

\* C5: every query of New and of the walk of Speak carries the tag of the
\* request, and the token New gives and every token appended by the walk is
\* a token learned under that tag.
C5_TagIsolation ==
  /\ (q.kind \in {"new", "select"}) => (q.tag = tag)
  /\ (op = "Speak" /\ "New" \in called /\ sprompt # <<>>)
       => (sprompt[Len(sprompt)] \in TagTokens(tag))
  /\ (op = "Speak")
       => \A i \in (Len(sprompt) + 1)..Len(out) : out[i] \in TagTokens(tag)

\* A walk has appended a token after a query whose prefix has, under another
\* tag, a suffix that was not learned for it under the tag of the request
C5_Witness ==
  /\ op = "Speak"
  /\ q.kind = "select"
  /\ Len(out) > Len(sprompt)
  /\ \E t \in db :
       /\ t.tag # tag
       /\ t.prefix = q.p
       /\ t.suffix \notin TagTokens(tag)

\* C6: at every lookup the window holds the normalized forms of the last
\* tokens of the sequence built so far.
C6_WindowNormalized ==
  (pc = "walk" /\ Len(out) < MaxOut) =>
    (terms = [i \in 1..Len(terms) |->
                ReduceEntropy(out[Len(out) - Len(terms) + i])])

\* ------------------------------------------------------------------------
\* brain.Speak
\* ------------------------------------------------------------------------
\* C7: for a prompt text with at least one token, Speaker.Speak is given
\* exactly Order() elements: the last Order() tokens in their order, with
\* empty strings in front when there are fewer; New is not called.
C7_PromptFitted ==
  (op = "Speak" /\ toks # <<>>) =>
    /\ called = {"Speak"}
    /\ Len(sprompt) = order
    /\ \A i \in 1..order :
         sprompt[i] = IF Len(toks) - order + i >= 1
                      THEN toks[Len(toks) - order + i]
                      ELSE Empty

\* A prompt with more tokens than the order has been cut
C7_Witness ==
  /\ op = "Speak"
  /\ Len(toks) > order
  /\ pc = "walk"
  /\ sprompt # <<>>

\* The causes of failure of the store
Causes == {ErrNoRows[1], ErrStore[1]}

\* C8: a failure of New or of a lookup is returned without output: with no
\* prompt and New failing, brain.Speak returns "" and an error and has not
\* called Speaker.Speak; when a lookup fails, Speaker.Speak returns no token
\* and brain.Speak returns "" and an error; the error wraps the cause.
C8_FailureNoOutput ==
  /\ (ret.err # Nil) => (ret.toks = Nil /\ ret.err[Len(ret.err)] \in Causes)
  /\ (op = "Speak" /\ pc = "done" /\ ret.err # Nil) =>
       /\ result.msg = Empty
       /\ result.err # Nil
       /\ SubSeq(result.err, 2, Len(result.err)) = ret.err
  /\ (op = "Speak" /\ pc = "done" /\ toks = <<>> /\ "Speak" \notin called) =>
       /\ "New" \in called
       /\ result.msg = Empty
       /\ result.err # Nil
       /\ result.err[Len(result.err)] \in Causes
  /\ (op = "Speak" /\ pc = "done" /\ result.err = Nil) => "Speak" \in called

\* A lookup has failed after the walk had appended a token
C8_Witness ==
  /\ op = "Speak"
  /\ pc = "done"
  /\ ret.err # Nil
  /\ Len(out) > Len(sprompt)

\* The strings of rr from its first to its last non-empty one
Trimmed(rr) ==
  LET ne == {k \in 1..Len(rr) : rr[k] # Empty}
  IN IF ne = {} THEN <<>>
     ELSE SubSeq(rr, CHOOSE k \in ne : \A j \in ne : k <= j,
                     CHOOSE k \in ne : \A j \in ne : j <= k)

\* C9: the message brain.Speak returns is the speaker's sequence from its
\* first to its last non-empty token, the empty tokens between them kept,
\* joined with single spaces; it is empty when there is no non-empty token.
C9_MessageTrimmed ==
  (op = "Speak" /\ pc = "done" /\ ret.err = Nil) =>
    /\ result.err = Nil
    /\ result.msg = Join(Trimmed(ret.toks))
    /\ Trimmed(ret.toks) = <<>> => result.msg = Empty

\* A sequence with empty tokens at both ends and between two tokens
C9_Witness ==
  /\ op = "Speak"
  /\ pc = "done"
  /\ ret.toks = <<Empty, wB, Empty, wCat, Empty>>
  /\ result.msg = wB \o <<Space, Space>> \o wCat

\* The speaker's sequences of the model
TrimTokens == {Empty, wB, wCat}
TrimInputs == UNION {[1..n -> TrimTokens] : n \in 0..MaxTrim}

\* Speaker.Speak of some speaker has returned a sequence to brain.Speak
TrimInit ==
  /\ order \in 1..MaxOrder
  /\ db = {}
  /\ learned = 0
  /\ forgot = 0
  /\ aborted = FALSE
  /\ pc = "ret"
  /\ op = "Speak"
  /\ tag = "t1"
  /\ text = <<>>
  /\ toks = <<>>
  /\ called = {"New", "Speak"}
  /\ sprompt = <<>>
  /\ terms = <<>>
  /\ nn = 0
  /\ out = <<>>
  /\ q = NoQuery
  /\ \E rr \in TrimInputs : ret = [toks |-> rr, err |-> Nil]
  /\ result = NoResult
  /\ ftuples = <<>>
  /\ fi = 0
  /\ fstep = 0
  /\ fterms = <<>>
  /\ txdb = {}
  /\ trace = <<>>
  /\ OuterInit

TrimNext == SpeakReturn

TrimSpec == TrimInit /\ [][TrimNext]_vars

\* ------------------------------------------------------------------------
\* Tokens
\* ------------------------------------------------------------------------
WordSet == {wA, <<"A">>, <<"a", "n">>, wThe, wB, <<RuneE>>, wCat}
WordLists == UNION {[1..n -> WordSet] : n \in 0..MaxWords}

\* the words of ws with sep between them
RECURSIVE Between(_, _)
Between(ws, sep) ==
  IF ws = <<>> THEN <<>>
  ELSE IF Len(ws) = 1 THEN ws[1]
  ELSE ws[1] \o sep \o Between(Tail(ws), sep)

TokenTexts ==
  {pad \o Between(ws, sep) \o pad :
     ws \in WordLists, sep \in {<<Space>>, <<Tab, Space>>},
     pad \in {<<>>, <<Space>>}}

TokensInit ==
  /\ order \in 1..MaxOrder
  /\ db = {}
  /\ learned = 0
  /\ forgot = 0
  /\ aborted = FALSE
  /\ pc = "tokens"
  /\ op = "Tokens"
  /\ tag = "t1"
  /\ text \in TokenTexts
  /\ toks = <<>>
  /\ called = {}
  /\ sprompt = <<>>
  /\ terms = <<>>
  /\ nn = 0
  /\ out = <<>>
  /\ q = NoQuery
  /\ ret = NoRet
  /\ result = NoResult
  /\ ftuples = <<>>
  /\ fi = 0
  /\ fstep = 0
  /\ fterms = <<>>
  /\ txdb = {}
  /\ trace = <<>>
  /\ OuterInit

\* toks := Tokens(nil, text)
Tokenize ==
  /\ pc = "tokens"
  /\ toks' = Tokens(<<>>, text)
  /\ pc' = "done"
  /\ UNCHANGED <<storeVars, forgetVars, op, tag, text, called, sprompt, terms,
                 nn, out, q, ret, result>>
  /\ UNCHANGED outerVars

\* The texts of a second message, tokenized onto the tokens of the first
MoreTexts == {<<>>, <<Space>>, wB, <<Space>> \o wCat, Sentence(<<wThe, wCat>>)}

\* toks = Tokens(toks, tx): dst is the list an earlier call returned
TokenizeMore ==
  /\ pc = "done"
  /\ op = "Tokens"
  /\ \E tx \in MoreTexts :
       /\ toks' = Tokens(toks, tx)
       /\ text' = tx
  /\ pc' = "appended"
  /\ UNCHANGED <<storeVars, forgetVars, op, tag, called, sprompt, terms,
                 nn, out, q, ret, result>>
  /\ UNCHANGED outerVars

TokensNext == Tokenize \/ TokenizeMore

TokensSpec == TokensInit /\ [][TokensNext]_vars

\* The words of a text: its maximal runs of runes that are not spaces
RECURSIVE Fields(_, _)
Fields(s, word) ==
  IF s = <<>> THEN (IF word = <<>> THEN <<>> ELSE <<word>>)
  ELSE IF IsSpace(Head(s))
    THEN (IF word = <<>> THEN <<>> ELSE <<word>>) \o Fields(Tail(s), <<>>)
  ELSE Fields(Tail(s), Append(word, Head(s)))

Articles == {<<"a">>, <<"a", "n">>, <<"t", "h", "e">>}

\* The exception to merging: the article is "a" (in either case when fold
\* is TRUE, as written when it is FALSE) and the word is one code point long
Exempt(art, word, fold) ==
  /\ (IF fold THEN ToLower(art) ELSE art) = <<"a">>
  /\ Len(word) = 1

\* The tokens of a list of words: an article that has a word after it takes
\* that word, unless they are exempt; a word taken is not looked at again
RECURSIVE Merged(_, _)
Merged(ws, fold) ==
  IF ws = <<>> THEN <<>>
  ELSE IF /\ Len(ws) >= 2
          /\ ToLower(ws[1]) \in Articles
          /\ ~Exempt(ws[1], ws[2], fold)
    THEN <<ws[1] \o <<Space>> \o ws[2]>> \o Merged(SubSeq(ws, 3, Len(ws)), fold)
  ELSE <<ws[1]>> \o Merged(Tail(ws), fold)

\* C10, as stated: an article that has a word after it and is not the second
\* half of a merge takes that word, unless the article is exactly "a" and
\* the word is one code point long.
C10_MergeExactlyA ==
  (op = "Tokens" /\ pc = "done") => toks = Merged(Fields(text, <<>>), FALSE)

\* C10, amended: ... unless the article is "a" in either case ("a" or "A")
\* and the word is one code point long.
C10_MergeFoldA ==
  (op = "Tokens" /\ pc = "done") => toks = Merged(Fields(text, <<>>), TRUE)

\* "A" before a word of one code point is left alone; that word, "a", has
\* taken the longer word after it
C10_Witness ==
  /\ op = "Tokens"
  /\ pc = "done"
  /\ text = <<"A", Space, "a", Space>> \o wCat
  /\ toks = <<<<"A">>, <<"a", Space>> \o wCat>>

\* ------------------------------------------------------------------------
\* commands.Do, called again and again
\* ------------------------------------------------------------------------
DoResult(nm) == [kind |-> "returned", name |-> nm]

\* What stays as it is while the commands run
brainVars == <<db, learned, forgot, tag, speakVars, ftuples, fi, fstep, fterms,
               txdb>>

BrainInit ==
  /\ db = {}
  /\ learned = 0
  /\ forgot = 0
  /\ tag = "t1"
  /\ text = <<>>
  /\ toks = <<>>
  /\ called = {}
  /\ sprompt = <<>>
  /\ terms = <<>>
  /\ nn = 0
  /\ out = <<>>
  /\ q = NoQuery
  /\ ret = NoRet
  /\ ftuples = <<>>
  /\ fi = 0
  /\ fstep = 0
  /\ fterms = <<>>
  /\ txdb = {}

CommandsInit ==
  /\ BrainInit
  /\ OuterInit
  /\ order = 1
  /\ aborted = FALSE
  /\ pc = "idle"
  /\ op = "none"
  /\ result = NoResult
  /\ trace = <<>>

\* Do(ctx, br, send, msg, pr, invoc); trace is the names of the commands
\* whose function the call invoked
Do(pr, invoc) ==
  /\ op \in {"none", "Do"}
  /\ priv' = pr
  /\ cmd' = invoc
  /\ LET i == DoLoop(all, 1, pr, invoc) IN
       IF i = 0
       THEN /\ all' = all
            /\ trace' = <<>>
            /\ result' = DoResult("")
       ELSE /\ all' = Invoke(all, i, ok(all[i], pr, invoc))
            /\ trace' = <<all[i].name>>
            /\ result' = DoResult(all[i].name)
  /\ op' = "Do"
  /\ pc' = "done"
  /\ UNCHANGED <<brainVars, order, aborted, cfg, robo, resp>>

CommandsNext == \E pr \in Privs, invoc \in Invocations : Do(pr, invoc)

CommandsSpec == CommandsInit /\ [][CommandsNext]_vars

\* The indexes of the commands of tbl that are ok for the invocation
Appropriate(tbl, pr, invoc) ==
  {i \in 1..Len(tbl) : ok(tbl[i], pr, invoc) # NoMatch}

\* C13: Do invokes the function of the first command of the table whose ok
\* returns non-nil, invokes no other and returns its name; with no such
\* command it invokes nothing and returns ""; with privilege "ignore" it
\* never invokes anything.
C13_DoFirstOk ==
  [][op' = "Do" =>
      LET fit == Appropriate(all, priv', cmd') IN
      /\ Len(trace') <= 1
      /\ (fit = {} => trace' = <<>> /\ result'.name = "")
      /\ (fit # {} =>
            \E i \in fit :
              /\ \A j \in fit : i <= j
              /\ trace' = <<all[i].name>>
              /\ result'.name = all[i].name)
      /\ (priv' = "ignore" => trace' = <<>>)]_vars

\* An admin says "say hi": "talk" is performed, not "talk-catchall", which
\* comes later and matches as well
C13_Witness ==
  /\ op = "Do"
  /\ priv = "admin"
  /\ cmd = <<"say", "hi">>
  /\ trace = <<"talk">>
  /\ result.name = "talk"

\* The commands of tbl whose flag is zero, in the order of the table
Enabled(tbl) == SelectSeq(tbl, LAMBDA c : c.disable = 0)

\* The names of the commands of tbl whose flag is nonzero
DisabledNames(tbl) == {tbl[i].name : i \in {j \in 1..Len(tbl) : tbl[j].disable # 0}}

\* C14: a command whose disable flag is nonzero when Do is called is not
\* invoked for any privilege level, owner included, and Do performs what it
\* would perform with the table without the disabled commands.
C14_DisabledSkipped ==
  [][op' = "Do" =>
      LET rest == Enabled(all)
          i == DoLoop(rest, 1, priv', cmd')
      IN /\ \A k \in 1..Len(trace') : trace'[k] \notin DisabledNames(all)
         /\ result'.name = (IF i = 0 THEN "" ELSE rest[i].name)
         /\ trace' = (IF i = 0 THEN <<>> ELSE <<rest[i].name>>)]_vars

\* "quit" has been disabled and the owner says "quit": the call goes on to
\* the last command of the table
C14_Witness ==
  /\ op = "Do"
  /\ priv = "owner"
  /\ cmd = <<"quit">>
  /\ "quit" \in DisabledNames(all)
  /\ trace = <<"talk-catchall">>
  /\ result.name = "talk-catchall"

\* ------------------------------------------------------------------------
\* package main: Init and Load
\* ------------------------------------------------------------------------
\* The channels a group can list
ChannelNames == {"#a", "#b"}
ChannelLists == UNION {[1..k -> ChannelNames] : k \in 0..MaxChannels}

\* The groups of the twitch table by name: block says whether the block
\* expression compiles
Groups(nm) ==
  {[name |-> nm, block |-> b, channels |-> c] :
     b \in BOOLEAN, c \in ChannelLists}

TwitchTables ==
  {{}} \cup {{g} : g \in Groups("g1")}
       \cup {{g, h} : g \in Groups("g1"), h \in Groups("g2")}

\* The configurations: tmi says whether the table tmi is defined
Configs == [tmi : BOOLEAN, twitch : TwitchTables]

\* The values of order given to Init
InitOrders == (0 - 1)..MaxOrder

MainInit ==
  /\ BrainInit
  /\ all = AllCommands
  /\ priv = ""
  /\ cmd = <<>>
  /\ cfg \in Configs
  /\ robo = NoRobot
  /\ resp = NoResponse
  /\ order \in InitOrders
  /\ aborted = FALSE
  /\ pc = "idle"
  /\ op = "none"
  /\ result = NoResult
  /\ trace = <<>>

\* What Init and Load return: Load's robot is nil when err is not
MainResult(e) == [kind |-> "returned", err |-> e]

\* The calls of Init after the test of order, with the message that wraps
\* the error of each (loadDBs's error is returned as it is)
InitCalls ==
  << [call |-> "io.ReadAll", msg |-> "couldn't read config"],
     [call |-> "toml.Unmarshal", msg |-> "couldn't unmarshal config"],
     [call |-> "loadDBs", msg |-> ""],
     [call |-> "sqlbrain.Create", msg |-> "couldn't initialize brain"],
     [call |-> "privacy.Init", msg |-> "couldn't initialize privacy list"] >>

\* The calls made when the call at index fail fails (all of them when fail
\* is 0), each with whether it succeeded
CallsMade(calls, fail) ==
  [i \in 1..(IF fail = 0 THEN Len(calls) ELSE fail) |->
     [call |-> calls[i].call, okay |-> i # fail]]

\* The error returned when the call at index fail fails
CallError(calls, fail) ==
  IF fail = 0 THEN Nil
  ELSE IF calls[fail].msg = "" THEN ErrStore
  ELSE Wrap(calls[fail].msg, ErrStore)

\* Init with the test of order left out
InitUnchecked(n, fail) ==
  [calls |-> CallsMade(InitCalls, fail), err |-> CallError(InitCalls, fail)]

\* Init(ctx, r, n): the calls it makes and the error it returns, where the
\* call at index fail fails
InitRun(n, fail) ==
  IF n <= 0
    THEN [calls |-> <<>>, err |-> <<"order must be positive">>]
  ELSE [calls |-> CallsMade(InitCalls, fail), err |-> CallError(InitCalls, fail)]

\* Init(ctx, r, order)
InitDatabases(fail) ==
  /\ pc = "idle"
  /\ LET run == InitRun(order, fail) IN
       /\ trace' = run.calls
       /\ result' = MainResult(run.err)
  /\ op' = "Init"
  /\ pc' = "done"
  /\ UNCHANGED <<brainVars, order, aborted, all, priv, cmd, cfg, robo, resp>>

\* The calls of Load before its loop; loadClient is called only when the
\* table tmi is defined
LoadCalls(c) ==
  << [call |-> "toml.Decode", msg |-> "couldn't decode config"],
     [call |-> "readkeys", msg |-> "couldn't read keys"],
     [call |-> "loadDBs", msg |-> ""],
     [call |-> "sqlbrain.Open", msg |-> "couldn't open brain"],
     [call |-> "privacy.Open", msg |-> "couldn't open privacy list"] >>
  \o (IF c.tmi
        THEN <<[call |-> "loadClient", msg |-> "couldn't load TMI config"]>>
      ELSE <<>>)

\* The orders in which range cfg.Twitch may give the groups
Orderings(S) ==
  {s \in [1..Cardinality(S) -> S] :
     \A i, j \in 1..Cardinality(S) : i # j => s[i] # s[j]}

\* channel.Channel of the channel p of the group g
Channel(g, p) ==
  [Name |-> p, Learn |-> g.name, Send |-> g.name, Block |-> g.name]

\* m[p] = v; writing to a nil map panics
SetEntry(m, p, v) ==
  IF m.nil THEN [panic |-> TRUE, m |-> m]
  ELSE [panic |-> FALSE,
        m |-> [m EXCEPT !.entries = {e \in @ : e.Name # p} \cup {v}]]

\* The inner loop of Load over the channels chs of the group g
RECURSIVE LoadChannels(_, _, _)
LoadChannels(rb, g, chs) ==
  IF chs = <<>> THEN [robo |-> rb, err |-> Nil, panic |-> FALSE]
  ELSE LET w == SetEntry(rb.channels, Head(chs), Channel(g, Head(chs))) IN
    IF w.panic THEN [robo |-> rb, err |-> Nil, panic |-> TRUE]
    ELSE LoadChannels([rb EXCEPT !.channels = w.m], g, Tail(chs))

\* The outer loop of Load over the groups gs, in the order range gives them
RECURSIVE LoadGroups(_, _)
LoadGroups(rb, gs) ==
  IF gs = <<>> THEN [robo |-> rb, err |-> Nil, panic |-> FALSE]
  ELSE IF ~Head(gs).block
    THEN [robo |-> NoRobot,
          err |-> Wrap("bad global or channel block expression", ErrStore),
          panic |-> FALSE]
  ELSE LET r == LoadChannels(rb, Head(gs), Head(gs).channels) IN
    IF r.panic THEN r ELSE LoadGroups(r.robo, Tail(gs))

\* Load(ctx, r), where the call at index fail fails and range gives the
\* groups in the order gs
Load(fail, gs) ==
  /\ pc = "idle"
  /\ trace' = CallsMade(LoadCalls(cfg), fail)
  /\ IF fail # 0
       THEN /\ result' = MainResult(CallError(LoadCalls(cfg), fail))
            /\ UNCHANGED <<robo, aborted>>
     ELSE LET r == LoadGroups(NoRobot, gs) IN
       IF r.panic
         THEN /\ aborted' = TRUE
              /\ result' = NoResult
              /\ robo' = r.robo
       ELSE /\ result' = MainResult(r.err)
            /\ robo' = r.robo
            /\ UNCHANGED aborted
  /\ op' = "Load"
  /\ pc' = "done"
  /\ UNCHANGED <<brainVars, order, all, priv, cmd, cfg, resp>>

MainNext ==
  \/ \E fail \in 0..Len(InitCalls) : InitDatabases(fail)
  \/ \E fail \in 0..Len(LoadCalls(cfg)) :
       \E gs \in Orderings(cfg.twitch) : Load(fail, gs)

MainSpec == MainInit /\ [][MainNext]_vars

\* C12: Init with order <= 0 returns an error before it reads the
\* configuration, opens a database or calls sqlbrain.Create or privacy.Init.
C12_InitRejectsOrder ==
  (op = "Init" /\ pc = "done" /\ order <= 0) =>
    /\ result.err # Nil
    /\ trace = <<>>

\* Init was called with order 0 and has returned its error
C12_Witness ==
  /\ op = "Init"
  /\ pc = "done"
  /\ order = 0
  /\ result = MainResult(<<"order must be positive">>)

\* The calls of Load all succeeded
LoadedFine ==
  /\ Len(trace) = Len(LoadCalls(cfg))
  /\ \A i \in 1..Len(trace) : trace[i].okay

\* C19: Load of a configuration whose parts load without error and which
\* has a group with a valid block expression listing at least one channel
\* returns, without error and without aborting, a Robot with an entry for
\* every listed channel that carries the settings of its group.
C19_LoadChannels ==
  (/\ op = "Load"
   /\ pc = "done"
   /\ LoadedFine
   /\ \A g \in cfg.twitch : g.block
   /\ \E g \in cfg.twitch : g.channels # <<>>) =>
    /\ ~aborted
    /\ result = MainResult(Nil)
    /\ ~robo.channels.nil
    /\ \A g \in cfg.twitch : \A i \in 1..Len(g.channels) :
         \E e \in robo.channels.entries :
           e.Name = g.channels[i] /\ e.Learn = g.name /\ e.Send = g.name

\* ------------------------------------------------------------------------
\* twitch/token.go: Validate
\* ------------------------------------------------------------------------
StatusOK == 200
StatusUnauthorized == 401

\* The status codes of the responses
StatusCodes == {StatusOK, 400, StatusUnauthorized, 403, 404, 429, 500, 503}

\* The bodies: a JSON object with its member message, or text that is not
\* JSON
Bodies ==
  {[json |-> TRUE, message |-> m] :
     m \in {"", "invalid access token", "missing authorization token"}}
  \cup {[json |-> FALSE, text |-> t] : t \in {"", "<html>", "upstream error"}}

\* What client.Do and reading the body give: an error of the client, a
\* response whose body cannot be read, or a response with its body
Responses ==
  {[kind |-> "error"]}
  \cup {[kind |-> "unread", status |-> st] : st \in StatusCodes}
  \cup {[kind |-> "response", status |-> st, body |-> b] :
          st \in StatusCodes, b \in Bodies}

ErrNeedRefresh == <<"need refresh">>

\* errors.Is(err, target)
Is(err, target) ==
  \E i \in 1..Len(err) : SubSeq(err, i, Len(err)) = target

\* json.Unmarshal(body, &s): the Validation decoded, or "nil" with an error
Unmarshal(body) ==
  IF body.json THEN [s |-> [Message |-> body.message], err |-> Nil]
  ELSE [s |-> "nil", err |-> ErrStore]

\* The switch on resp.StatusCode
StatusError(st, s) ==
  CASE st = StatusOK -> Nil
    [] st = StatusUnauthorized ->
         Wrap("token validation failed", ErrNeedRefresh)
    [] OTHER -> <<"token validation failed">>

\* What Validate returns for the response rs
ValidateRun(rs) ==
  IF rs.kind = "error"
    THEN [v |-> "nil", err |-> Wrap("couldn't validate access token", ErrStore)]
  ELSE IF rs.kind = "unread"
    THEN [v |-> "nil",
          err |-> Wrap("couldn't read token validation response", ErrStore)]
  ELSE LET u == Unmarshal(rs.body) IN
    IF u.err # Nil
      THEN [v |-> "nil",
            err |-> Wrap("couldn't unmarshal token validation response", u.err)]
    ELSE [v |-> u.s, err |-> StatusError(rs.status, u.s)]

ValidateInit ==
  /\ BrainInit
  /\ all = AllCommands
  /\ priv = ""
  /\ cmd = <<>>
  /\ cfg = NoConfig
  /\ robo = NoRobot
  /\ resp \in Responses
  /\ order = 1
  /\ aborted = FALSE
  /\ pc = "idle"
  /\ op = "none"
  /\ result = NoResult
  /\ trace = <<>>

\* Validate(ctx, client, tok), the API answering with resp
Validate ==
  /\ pc = "idle"
  /\ LET r == ValidateRun(resp) IN
       result' = [kind |-> "returned", v |-> r.v, err |-> r.err]
  /\ op' = "Validate"
  /\ pc' = "done"
  /\ UNCHANGED <<brainVars, order, aborted, trace, all, priv, cmd, cfg, robo,
                 resp>>

ValidateNext == Validate

ValidateSpec == ValidateInit /\ [][ValidateNext]_vars

\* C15: with status 401 the error Validate returns wraps ErrNeedRefresh, for
\* every response body; with status 200 and a decodable body it is nil; with
\* any other status it is non-nil and does not wrap ErrNeedRefresh.
C15_UnauthorizedNeedsRefresh ==
  (op = "Validate" /\ pc = "done" /\ resp.kind = "response") =>
    /\ (resp.status = StatusUnauthorized => Is(result.err, ErrNeedRefresh))
    /\ (resp.status = StatusOK /\ resp.body.json => result.err = Nil)
    /\ (resp.status \notin {StatusOK, StatusUnauthorized} =>
          result.err # Nil /\ ~Is(result.err, ErrNeedRefresh))

\* ------------------------------------------------------------------------
\* C11
\* ------------------------------------------------------------------------
\* The words of the tokens of tk, each token split at its spaces
RECURSIVE WordsOf(_)
WordsOf(tk) ==
  IF tk = <<>> THEN <<>> ELSE Fields(Head(tk), <<>>) \o WordsOf(Tail(tk))

\* Every token is one word, or two words with a single space between them
WellFormed(tk) ==
  \A i \in 1..Len(tk) :
    /\ tk[i] # Empty
    /\ Len(Fields(tk[i], <<>>)) \in {1, 2}
    /\ tk[i] = Sentence(Fields(tk[i], <<>>))

\* The tokens tk are those of the text s
TokensOf(tk, s) == WellFormed(tk) /\ WordsOf(tk) = Fields(s, <<>>)

\* C11: Tokens(nil, text) gives non-empty tokens of one or two whitespace-free
\* words which, split back at their single space, are exactly the
\* whitespace-separated words of the text, in order and unchanged (none for
\* a text that is empty or only whitespace); Tokens with a non-empty dst
\* leaves the elements of dst as they are and appends after them.
C11_TokensSplit ==
  /\ [](op = "Tokens" /\ pc = "done" =>
          /\ TokensOf(toks, text)
          /\ (Fields(text, <<>>) = <<>> => toks = <<>>))
  /\ [][pc' = "appended" =>
          /\ Len(toks') >= Len(toks)
          /\ SubSeq(toks', 1, Len(toks)) = toks
          /\ TokensOf(SubSeq(toks', Len(toks) + 1, Len(toks')), text')]_vars

\* Tab and space between the words, space around them; then "Cat" appended
\* after the article "the" of dst, which stays as it was
C11_Witness ==
  /\ op = "Tokens"
  /\ pc = "appended"
  /\ toks = <<wB, wThe, wCat>>
  /\ text = <<Space>> \o wCat

\* ------------------------------------------------------------------------
\* C18
\* ------------------------------------------------------------------------
\* The names of the commands with admin and regular both false
OwnerOnly ==
  {AllCommands[i].name :
     i \in {j \in 1..Len(AllCommands) :
              ~AllCommands[j].admin /\ ~AllCommands[j].regular}}

\* The names of the commands with regular false
NotRegular ==
  {AllCommands[i].name :
     i \in {j \in 1..Len(AllCommands) : ~AllCommands[j].regular}}

\* C18: for every privilege string, a command whose admin and regular flags
\* are both false is invoked by Do only when priv is "owner", and a command
\* with regular false is never invoked when priv is "".
C18_PrivilegeGated ==
  (op = "Do") =>
    \A k \in 1..Len(trace) :
      /\ (trace[k] \in OwnerOnly => priv = "owner")
      /\ (priv = "" => trace[k] \notin NotRegular)

\* ------------------------------------------------------------------------
\* C16
\* ------------------------------------------------------------------------
\* The delete statements of the trace tr, in order
Execs(tr) == SelectSeq(tr, LAMBDA e : e.op = "Exec")

\* The statements run tuple by tuple, each tuple's in the order 0,1,2,3,4,
\* and all but the last have succeeded
InProtocolOrder(ex) ==
  \A j \in 1..Len(ex) :
    /\ ex[j].tuple = ((j - 1) \div 5) + 1
    /\ ex[j].step = (j - 1) % 5
    /\ (j < Len(ex) => ex[j].ok)

\* What follows the statements in the trace tr of a call that has returned
EndsInProtocol(tr, ntuples) ==
  LET ex == Execs(tr)
      after == SubSeq(tr, Len(ex) + 2, Len(tr))
      allDone == Len(ex) = 5 * ntuples /\ \A j \in 1..Len(ex) : ex[j].ok
  IN IF allDone
       THEN \/ after = <<[op |-> "Commit", ok |-> TRUE]>>
            \/ after = <<[op |-> "Commit", ok |-> FALSE], [op |-> "Rollback"]>>
     ELSE after = <<[op |-> "Rollback"]>>

\* C16: in a Forget call, Begin comes before every delete statement; the five
\* statements of each tuple run in the order 0,1,2,3,4, tuple after tuple;
\* nothing is executed after a failed statement; Commit is attempted once,
\* and only after every statement of every tuple has succeeded; a call that
\* does not end in a successful Commit ends in Rollback; an empty list gives
\* Begin and Commit with no statement.  (A call whose Begin failed has no
\* transaction: it does nothing more.)
C16_ForgetProtocol ==
  (op = "Forget" /\ pc \in {"forget", "done"}) =>
    /\ trace # <<>>
    /\ trace[1].op = "Begin"
    /\ \A k \in 2..Len(trace) : trace[k].op # "Begin"
    /\ (~trace[1].ok => trace = <<[op |-> "Begin", ok |-> FALSE]>>)
    /\ LET ex == Execs(trace) IN
         /\ InProtocolOrder(ex)
         /\ Len(ex) <= 5 * Len(ftuples)
         /\ SubSeq(trace, 2, Len(ex) + 1) = ex
         /\ (pc = "forget" => Len(trace) = Len(ex) + 1)
    /\ (pc = "done" /\ trace[1].ok => EndsInProtocol(trace, Len(ftuples)))

\* Two tuples were forgotten: Begin, ten statements, Commit
C16_Witness ==
  /\ op = "Forget"
  /\ pc = "done"
  /\ Len(ftuples) = 2
  /\ Len(trace) = 12
  /\ trace[12] = [op |-> "Commit", ok |-> TRUE]

\* ------------------------------------------------------------------------
\* C17
\* ------------------------------------------------------------------------
\* The parameters p0..p(n-1) and suffix that the tuple tup alone gives
OwnParams(tup, n) ==
  [p |-> [i \in 1..n |->
            IF i <= Len(tup.Prefix) THEN NullString(tup.Prefix[i])
            ELSE NullString(Empty)],
   suffix |-> NullString(tup.Suffix)]

\* C17: the parameters of the delete statements executed for a tuple are the
\* tuple's own prefix tokens in order and its suffix, empty tokens as NULL;
\* also for a Prefix of fewer than N elements, no parameter holds a value
\* left by a tuple processed earlier in the call.
C17_ParamsOwnTuple ==
  (op = "Forget") =>
    \A k \in 1..Len(trace) :
      (trace[k].op = "Exec" /\ trace[k].step \in {1, 2}) =>
        /\ trace[k].args.p = OwnParams(ftuples[trace[k].tuple], order).p
        /\ trace[k].args.suffix = OwnParams(ftuples[trace[k].tuple], order).suffix

====
